---------------------------- MODULE Spec2Model ----------------------------
(***************************************************************************)
(* A model of ping-proxy: the proxy's ICMP engine (src/proxy/ping.rs), the *)
(* proxy dispatcher (src/proxy/proxy.rs) and the client probe loop         *)
(* (src/ping/ping.rs).                                                     *)
(*                                                                         *)
(* Datagrams are sequences of bytes (0..255).  Rust indexes from 0, TLA+   *)
(* from 1: an operator taking an "index" takes the Rust index.             *)
(* u16/u32 values are integers; the model draws them below 2^31.  The      *)
(* 64-bit clock values are kept as 8 big-endian bytes wherever the code    *)
(* does arithmetic on values read from a datagram.                         *)
(***************************************************************************)
EXTENDS Integers, Sequences, FiniteSets, TLC

VARIABLES
    (* the build and the process *)
    build,      \* [overflow_checks, cursor_checked]: properties of the build
    (* proxy: engine and dispatcher *)
    seq,        \* Ping.seq: the 16-bit ICMP sequence counter
    clock,      \* Ping.uptime.elapsed() in microseconds
    mainTask,   \* the task running server(): "running" | "panicked"
    reader4,    \* the task running ping_v4_rx: "running" | "panicked"
    reader6,    \* the task running ping_v6_rx: "running" | "panicked"
    rxbuf,      \* server()'s buf: the first RxBufLen bytes of the 1024
    sent4,      \* messages handed to socket4.send_to, in order
    sent6,      \* messages handed to socket6.send_to, in order
    raw4,       \* datagrams queued on socket4, not yet read
    raw6,       \* datagrams queued on socket6, not yet read
    udpOut,     \* frames handed to the UDP socket's send_to, in order
    injected,   \* how many datagrams other hosts have put on the raw sockets
    handled,    \* history: how server() disposed of each UDP datagram
    (* client *)
    args,       \* CliArgs: [count]
    cpc,        \* position of Ping::run
    count,      \* run's local count
    cseq,       \* run's local seq
    stats,      \* Ping.stats
    pending,    \* seqs of the requests sent and not answered yet
    inbox,      \* datagrams queued on the client's UDP socket
    accepted,   \* history: <<probe seq, reply frame>> for each process_reply
    printed,    \* what print_stats printed, or <<>>
    ioerr,      \* history: a send or recv of the client's socket returned Err
    (* codec harness *)
    kpc,        \* position of the harness
    kin,        \* the inputs drawn
    kout        \* the results computed

proxyVars  == <<seq, clock, mainTask, reader4, reader6, rxbuf, sent4, sent6,
                raw4, raw6, udpOut, injected, handled>>
clientVars == <<args, cpc, count, cseq, stats, pending, inbox, accepted, printed,
                ioerr>>
codecVars  == <<kpc, kin, kout>>
vars       == <<build, proxyVars, clientVars, codecVars>>

-----------------------------------------------------------------------------
(* Bytes and big-endian fields (buf_view's write_uN / read_uN / set_u16).  *)

U16BE(v) == <<(v \div 256) % 256, v % 256>>

U32BE(v) == <<(v \div 16777216) % 256, (v \div 65536) % 256,
              (v \div 256) % 256, v % 256>>

\* a u64 below 2^31: the four high bytes are zero
U64BE(v) == <<0, 0, 0, 0>> \o U32BE(v)

\* bytes index .. index+n-1 of buf (Rust indices)
Slice(buf, index, n) == SubSeq(buf, index + 1, index + n)

GetU8(buf, index) == buf[index + 1]

GetU16(buf, index) == buf[index + 1] * 256 + buf[index + 2]

GetU32(buf, index) ==
    buf[index + 1] * 16777216 + buf[index + 2] * 65536
        + buf[index + 3] * 256 + buf[index + 4]

set_u16(buf, index, v) ==
    [buf EXCEPT ![index + 1] = (v \div 256) % 256, ![index + 2] = v % 256]

\* a - b modulo 2^64 on 8-byte big-endian values (u64 wrapping_sub)
RECURSIVE SubBorrow(_, _, _, _)
SubBorrow(a, b, i, borrow) ==
    IF i = 0 THEN <<>>
    ELSE LET d == a[i] - b[i] - borrow
         IN  SubBorrow(a, b, i - 1, IF d < 0 THEN 1 ELSE 0)
                 \o <<IF d < 0 THEN d + 256 ELSE d>>

WrappingSub64(a, b) == SubBorrow(a, b, 8, 0)

\* a < b on big-endian byte strings of one length
RECURSIVE LessBytes(_, _, _)
LessBytes(a, b, i) ==
    IF i > Len(a) THEN FALSE
    ELSE IF a[i] # b[i] THEN a[i] < b[i]
    ELSE LessBytes(a, b, i + 1)

-----------------------------------------------------------------------------
(* Addresses: [ip |-> 4 or 16 bytes, port |-> 0..65535].                   *)

is_ipv4(ip) == Len(ip) = 4

SocketAddr(ip, port) == [ip |-> ip, port |-> port]

-----------------------------------------------------------------------------
(* The ICMP engine.                                                        *)

PING_MAGIC == 420940067     \* 0x19170923

identifier == 6423          \* 0x1917

InitSeq == 2339             \* 0x0923

ProxyPid == 4242            \* std::process::id() of the modelled proxy

RECURSIVE SumWords(_, _, _)
SumWords(buf, index, len) ==
    IF index >= len THEN 0
    ELSE buf[index + 1] * 256 + buf[index + 2] + SumWords(buf, index + 2, len)

\* ip_checksum folding the carries once only
ip_checksum_one_fold(buf) ==
    LET odd  == Len(buf) % 2 = 1
        len  == IF odd THEN Len(buf) - 1 ELSE Len(buf)
        sum0 == SumWords(buf, 0, len) + (IF odd THEN buf[len + 1] ELSE 0)
        sum1 == (sum0 \div 65536) + (sum0 % 65536)
    IN  65535 - (sum1 % 65536)

ip_checksum(buf) ==
    LET odd  == Len(buf) % 2 = 1
        len  == IF odd THEN Len(buf) - 1 ELSE Len(buf)
        sum0 == SumWords(buf, 0, len) + (IF odd THEN buf[len + 1] ELSE 0)
        sum1 == (sum0 \div 65536) + (sum0 % 65536)
        sum2 == sum1 + (sum1 \div 65536)
    IN  65535 - (sum2 % 65536)

\* the ICMP header as written before the checksum is known
icmp_header(addr, iseq) ==
    <<IF is_ipv4(addr.ip) THEN 8 ELSE 128, 0, 0, 0>>
        \o U16BE(identifier) \o U16BE(iseq)

\* private_payload writing the target's port, 0, for the client's
private_payload_port0(client_seq, addr, now) ==
    LET body == U32BE(PING_MAGIC) \o <<0, 0>> \o U32BE(ProxyPid)
                    \o U32BE(client_seq) \o U64BE(now) \o U16BE(0)
                    \o (IF is_ipv4(addr.ip) THEN <<4>> ELSE <<16>>)
                    \o addr.ip
    IN  set_u16(body, 4, ip_checksum(body))

\* magic .. host, with the private checksum installed
private_payload(client_seq, addr, now) ==
    LET body == U32BE(PING_MAGIC) \o <<0, 0>> \o U32BE(ProxyPid)
                    \o U32BE(client_seq) \o U64BE(now) \o U16BE(addr.port)
                    \o (IF is_ipv4(addr.ip) THEN <<4>> ELSE <<16>>)
                    \o addr.ip
    IN  set_u16(body, 4, ip_checksum(body))

filler(n) == [i \in 1..n |-> (i - 1) % 256]

\* [panic, buf]: len - index underflows when len < index; the subtraction
\* panics with overflow checks, and without them the filler loop runs off
\* the end of the 64 KiB buffer and write_u8 panics.
icmp_request_build(client_seq, addr, len, iseq, now) ==
    LET head  == icmp_header(addr, iseq) \o private_payload(client_seq, addr, now)
        index == Len(head)
        whole == head \o filler(len - index)
    IN  IF len < index
        THEN [panic |-> TRUE, buf |-> <<>>]
        ELSE [panic |-> FALSE, buf |-> set_u16(whole, 2, ip_checksum(whole))]

\* the socket send_to picks
send_socket(target) == IF is_ipv4(target.ip) THEN 4 ELSE 6

\* send_to: [panic, socket, buf, ret]; ret is the Ok(len) of a successful send
send_to(source, target, client_seq, len, iseq, now) ==
    LET built == icmp_request_build(client_seq, source, len, iseq, now)
    IN  [panic  |-> built.panic,
         socket |-> send_socket(target),
         buf    |-> built.buf,
         ret    |-> len]

Ok(info)    == [kind |-> "Ok", info |-> info]
Err(e)      == [kind |-> "Err", err |-> e]
Panic       == [kind |-> "Panic"]

\* now - tx_time as u32: the low four bytes of the wrapping difference
elapse_of(now, tx_time) == SubSeq(WrappingSub64(U64BE(now), tx_time), 5, 8)

\* parse_payload testing the pid ahead of the magic
parse_payload_pid_first(buf, ttl, icmp_offset, now, checked) ==
    LET magic_index == icmp_offset + 8
        len         == Len(buf)
    IN  IF len < magic_index + 10 THEN Panic
        ELSE IF Slice(buf, magic_index + 6, 4) # U32BE(ProxyPid) THEN Err("ID")
        ELSE IF Slice(buf, magic_index, 4) # U32BE(PING_MAGIC) THEN Err("Magic")
        ELSE IF len < magic_index + 25 THEN Panic
        ELSE LET checksum == GetU16(buf, magic_index + 4)
                 cleared  == set_u16(buf, magic_index + 4, 0)
                 hsize    == IF GetU8(buf, magic_index + 24) = 4 THEN 4 ELSE 16
                 index    == magic_index + 25 + hsize
             IN  IF len < index THEN Panic
                 ELSE IF checksum #
                         ip_checksum(Slice(cleared, magic_index, index - magic_index))
                 THEN Err("Checksum")
                 ELSE IF checked /\ LessBytes(U64BE(now), Slice(buf, magic_index + 14, 8), 1)
                 THEN Panic
                 ELSE Ok([target |-> SocketAddr(Slice(buf, magic_index + 25, hsize),
                                                GetU16(buf, magic_index + 22)),
                          seq    |-> GetU32(buf, magic_index + 10),
                          elapse |-> elapse_of(now, Slice(buf, magic_index + 14, 8)),
                          ttl    |-> ttl])

\* parse_payload without the test of the pid
parse_payload_any_pid(buf, ttl, icmp_offset, now, checked) ==
    LET magic_index == icmp_offset + 8
        len         == Len(buf)
    IN  IF len < magic_index + 4 THEN Panic
        ELSE IF Slice(buf, magic_index, 4) # U32BE(PING_MAGIC) THEN Err("Magic")
        ELSE IF len < magic_index + 25 THEN Panic
        ELSE LET checksum == GetU16(buf, magic_index + 4)
                 cleared  == set_u16(buf, magic_index + 4, 0)
                 hsize    == IF GetU8(buf, magic_index + 24) = 4 THEN 4 ELSE 16
                 index    == magic_index + 25 + hsize
             IN  IF len < index THEN Panic
                 ELSE IF checksum #
                         ip_checksum(Slice(cleared, magic_index, index - magic_index))
                 THEN Err("Checksum")
                 ELSE IF checked /\ LessBytes(U64BE(now), Slice(buf, magic_index + 14, 8), 1)
                 THEN Panic
                 ELSE Ok([target |-> SocketAddr(Slice(buf, magic_index + 25, hsize),
                                                GetU16(buf, magic_index + 22)),
                          seq    |-> GetU32(buf, magic_index + 10),
                          elapse |-> elapse_of(now, Slice(buf, magic_index + 14, 8)),
                          ttl    |-> ttl])

\* The slice handed to parse holds exactly Len(buf) bytes: a read that
\* reaches past it panics.
\* The magic and the pid are compared as the 4 bytes read, which may hold
\* any u32.
parse_payload(buf, ttl, icmp_offset, now, checked) ==
    LET magic_index == icmp_offset + 8
        len         == Len(buf)
    IN  IF len < magic_index + 4 THEN Panic
        ELSE IF Slice(buf, magic_index, 4) # U32BE(PING_MAGIC) THEN Err("Magic")
        ELSE IF len < magic_index + 10 THEN Panic
        ELSE IF Slice(buf, magic_index + 6, 4) # U32BE(ProxyPid) THEN Err("ID")
        ELSE IF len < magic_index + 25 THEN Panic
        ELSE LET checksum == GetU16(buf, magic_index + 4)
                 cleared  == set_u16(buf, magic_index + 4, 0)
                 cseqv    == GetU32(buf, magic_index + 10)
                 tx_time  == Slice(buf, magic_index + 14, 8)
                 port     == GetU16(buf, magic_index + 22)
                 hlen     == GetU8(buf, magic_index + 24)
                 hsize    == IF hlen = 4 THEN 4 ELSE 16
                 index    == magic_index + 25 + hsize
             IN  IF len < index THEN Panic
                 ELSE IF checksum #
                         ip_checksum(Slice(cleared, magic_index, index - magic_index))
                 THEN Err("Checksum")
                 ELSE IF checked /\ LessBytes(U64BE(now), tx_time, 1) THEN Panic
                 ELSE Ok([target |-> SocketAddr(Slice(buf, magic_index + 25, hsize), port),
                          seq    |-> cseqv,
                          elapse |-> elapse_of(now, tx_time),
                          ttl    |-> ttl])

parse(buf, now, checked) ==
    IF Len(buf) < 1 THEN Panic
    ELSE LET ihl == GetU8(buf, 0)
             ver == ihl \div 16
         IN  IF ver = 4 THEN
                 LET icmp_offset == (ihl % 16) * 4
                 IN  IF Len(buf) < 9 \/ Len(buf) < icmp_offset + 1 THEN Panic
                     ELSE IF GetU8(buf, icmp_offset) # 0 THEN Err("Type")
                     ELSE parse_payload(buf, GetU8(buf, 8), icmp_offset, now, checked)
             ELSE IF ver = 6 THEN
                 IF Len(buf) < 41 THEN Panic
                 ELSE IF GetU8(buf, 40) # 129 THEN Err("Type")
                 ELSE parse_payload(buf, GetU8(buf, 7), 40, now, checked)
             ELSE Err("IpHeader")

-----------------------------------------------------------------------------
(* Wire codecs between client and proxy.                                   *)

\* build_request writing the length low byte first
build_request_length_le(sq, length, ip) ==
    U32BE(sq) \o <<length % 256, (length \div 256) % 256>>
        \o (IF is_ipv4(ip) THEN <<4>> ELSE <<16>>) \o ip

\* client: | seq(4B) | length(2B) | host length(1B) | host |
build_request(sq, length, ip) ==
    U32BE(sq) \o U16BE(length)
        \o (IF is_ipv4(ip) THEN <<4>> ELSE <<16>>) \o ip

\* proxy: | seq(4B) | elapse(4B) | ttl(1B) |
build_proxy_respone(info) == U32BE(info.seq) \o info.elapse \o <<info.ttl>>

-----------------------------------------------------------------------------
(* Bounds of the proxy model.                                              *)

MaxHandled == 2     \* UDP datagrams the listener receives in a run
MaxRaw     == 2     \* datagrams queued on one raw socket
MaxInject  == 1     \* forged replies put on the raw sockets in a run of Spec
MaxForeign == 3     \* datagrams of other origin in a run of SpecRaw
MaxClock   == 1     \* the clock runs from 0 to MaxClock microseconds
RxBufLen   == 27    \* bytes of server()'s buffer the model keeps

\* what the build can be: arithmetic overflow checks on or off, and the
\* cursor's reads checked against its writer index or only against the slice
Builds == [overflow_checks : BOOLEAN, cursor_checked : BOOLEAN]

-----------------------------------------------------------------------------
(* The proxy dispatcher.                                                   *)

\* the buffer after recv_from stored a datagram of Len(frame) bytes in it
recv_into(buf, frame) ==
    frame \o SubSeq(buf, Len(frame) + 1, Len(buf))

\* [kind |-> "panic"] | [kind |-> "drop"] |
\* [kind |-> "send", seq, pkt_len, target]: what proxy_rx decodes from the
\* len bytes of buf before it calls send_to
proxy_rx_decode(buf, len, cursor_checked) ==
    IF len < 7 /\ cursor_checked THEN [kind |-> "panic"]
    ELSE LET sq       == GetU32(buf, 0)
             pkt_len  == GetU16(buf, 4)
             host_len == GetU8(buf, 6)
         IN  IF host_len + 7 # len THEN [kind |-> "drop"]
             ELSE IF host_len = 4
                  THEN [kind |-> "send", seq |-> sq, pkt_len |-> pkt_len,
                        target |-> SocketAddr(Slice(buf, 7, 4), 0)]
             ELSE IF host_len < 16 /\ cursor_checked THEN [kind |-> "panic"]
             ELSE [kind |-> "send", seq |-> sq, pkt_len |-> pkt_len,
                   target |-> SocketAddr(Slice(buf, 7, 16), 0)]

\* the counter stopping at 0xFFFF
saturating_inc16(v) == IF v = 65535 THEN v ELSE v + 1

wrapping_inc16(v) == (v + 1) % 65536

-----------------------------------------------------------------------------
(* The proxy's environment: clients, targets and other hosts.              *)

\* the UDP listener is bound to 0.0.0.0, so its peers are IPv4; two clients
\* on one host
ClientA == SocketAddr(<<10, 0, 0, 5>>, 33000)
ClientB == SocketAddr(<<10, 0, 0, 5>>, 33001)

Target4 == <<8, 8, 8, 8>>
Target6 == <<0, 0, 0, 0, 0, 0, 0, 0, 0, 0, 0, 0, 0, 0, 0, 1>>

\* frames as the client builds them, the last with a short packet length
ClientFrames(sq) ==
    {build_request(sq, 64, Target4), build_request(sq, 64, Target6),
     build_request(sq, 32, Target4)}

\* other datagrams that reach the UDP port
OddFrames ==
    { <<0, 0, 0, 1, 0>>,                                  \* 5 bytes
      <<0, 0, 0, 1, 0, 64, 0>>,                           \* host_len 0
      <<0, 0, 0, 1, 0, 64, 1, 8>>,                        \* host_len 1
      <<0, 0, 0, 1, 0, 64, 4, 8, 8, 8, 8, 0>>,            \* host_len 4, 12 bytes
      <<0, 0, 0, 1, 0, 64, 20>> \o [i \in 1..20 |-> 32] } \* host_len 20

\* <<peer address, datagram>> as recv_from returns them: ClientA probes
\* with seq 7, ClientB with seq 9, and the odd frames come from ClientA's
\* address
Requests ==
    ({ClientA} \X (ClientFrames(7) \cup OddFrames))
        \cup ({ClientB} \X ClientFrames(9))

\* an IPv4 header of ihl words in front of an ICMP message
ipv4_datagram(ihl, ttl, icmp) ==
    <<64 + ihl, 0>> \o U16BE(ihl * 4 + Len(icmp)) \o <<0, 0, 0, 0, ttl, 1, 0, 0>>
        \o <<8, 8, 8, 8, 192, 0, 2, 1>> \o [i \in 1..(ihl - 5) * 4 |-> 0] \o icmp

\* a 40-byte IPv6 header in front of an ICMPv6 message
ipv6_datagram(ttl, icmp) ==
    <<96, 0, 0, 0>> \o U16BE(Len(icmp)) \o <<58, ttl>>
        \o [i \in 1..32 |-> 0] \o icmp

\* the Echo Reply a target makes of an Echo Request: the type changed, the
\* ICMP checksum redone, the rest echoed
echo_reply(family, request) ==
    LET typed == [request EXCEPT ![1] = IF family = 4 THEN 0 ELSE 129,
                                 ![3] = 0, ![4] = 0]
    IN  set_u16(typed, 2, ip_checksum(typed))

is_echo_request(family, icmp) ==
    Len(icmp) >= 8 /\ icmp[1] = (IF family = 4 THEN 8 ELSE 128)

datagram_of(family, ihl, ttl, icmp) ==
    IF family = 4 THEN ipv4_datagram(ihl, ttl, icmp) ELSE ipv6_datagram(ttl, icmp)

EchoIhl == 5
EchoTtl == 55

\* a private payload as any host can write one
forged_payload(pid, client_seq, addr, tx_time) ==
    LET body == U32BE(PING_MAGIC) \o <<0, 0>> \o U32BE(pid)
                    \o U32BE(client_seq) \o tx_time \o U16BE(addr.port)
                    \o <<Len(addr.ip)>> \o addr.ip
    IN  set_u16(body, 4, ip_checksum(body))

Victim == SocketAddr(<<10, 0, 0, 9>>, 4000)

\* ICMP messages of other origin: Echo Replies to other programs' pings,
\* other ICMP types, and forgeries
ForeignIcmp(family) ==
    LET reply == <<IF family = 4 THEN 0 ELSE 129, 0, 0, 0, 0, 1, 0, 1>>
        good  == forged_payload(ProxyPid, 3, Victim, U64BE(0))
    IN  { reply,                                                \* no payload
          reply \o <<1, 2, 3, 4>>,                              \* another magic
          [reply EXCEPT ![1] = 3],                              \* another type
          reply \o forged_payload(ProxyPid + 1, 3, Victim, U64BE(0)),
          reply \o [good EXCEPT ![14] = 4],                     \* seq 3 -> 4
          reply \o good,
          reply \o forged_payload(ProxyPid, 3, Victim, U64BE(MaxClock + 1)) }

\* a forged Echo Reply that passes every test of parse
Forged(family) ==
    datagram_of(family, 5, 64,
        <<IF family = 4 THEN 0 ELSE 129, 0, 0, 0, 0, 1, 0, 1>>
            \o forged_payload(ProxyPid, 3, Victim, U64BE(0)))

\* the datagrams of other origin a raw socket may deliver
Foreign4 == {datagram_of(4, 5, 64, icmp) : icmp \in ForeignIcmp(4)}
Foreign6 == {datagram_of(6, 0, 64, icmp) : icmp \in ForeignIcmp(6)}

-----------------------------------------------------------------------------
(* The proxy's tasks.                                                      *)

ClientIdle ==
    /\ args = <<>> /\ cpc = "off" /\ count = 0 /\ cseq = 0 /\ stats = <<>>
    /\ pending = {} /\ inbox = <<>> /\ accepted = <<>> /\ printed = <<>>
    /\ ioerr = FALSE

CodecIdle == kpc = "off" /\ kin = <<>> /\ kout = <<>>

ProxyInit ==
    /\ seq = InitSeq
    /\ clock = 0
    /\ mainTask = "running" /\ reader4 = "running" /\ reader6 = "running"
    /\ rxbuf = [i \in 1..RxBufLen |-> 0]
    /\ sent4 = <<>> /\ sent6 = <<>>
    /\ raw4 = <<>> /\ raw6 = <<>>
    /\ udpOut = <<>>
    /\ injected = 0
    /\ handled = <<>>

Init ==
    /\ build \in Builds
    /\ ProxyInit
    /\ ClientIdle
    /\ CodecIdle

\* the outcome of proxy_rx on the len bytes of buf received from addr:
\* [outcome |-> "panic" | "drop" | "sent", counted, socket, msg, ret, target];
\* counted says whether the sequence counter was advanced
proxy_rx(buf, len, addr, iseq, now, cursor_checked) ==
    LET d    == proxy_rx_decode(buf, len, cursor_checked)
        none == [outcome |-> d.kind, counted |-> FALSE, socket |-> 0,
                 msg |-> <<>>, ret |-> -1, target |-> <<>>]
    IN  IF d.kind # "send" THEN none
        ELSE LET r == send_to(addr, d.target, d.seq, d.pkt_len, iseq, now)
             IN  IF r.panic
                 THEN [none EXCEPT !.outcome = "panic", !.counted = TRUE]
                 ELSE [outcome |-> "sent", counted |-> TRUE, socket |-> r.socket,
                       msg |-> r.buf, ret |-> r.ret, target |-> d.target]

\* one turn of server()'s loop: recv_from returns frame from addr, and
\* proxy_rx runs to its end
ProxyRx(frame, addr) ==
    /\ mainTask = "running"
    /\ Len(handled) < MaxHandled
    /\ rxbuf' = recv_into(rxbuf, frame)
    /\ \E r \in {proxy_rx(recv_into(rxbuf, frame), Len(frame), addr, seq, clock,
                          build.cursor_checked)} :
         LET msg == [buf |-> r.msg, target |-> r.target, echoed |-> FALSE,
                     origin |-> [client |-> addr, seq |-> GetU32(frame, 0)]]
         IN  /\ seq' = IF r.counted THEN wrapping_inc16(seq) ELSE seq
             /\ mainTask' = IF r.outcome = "panic" THEN "panicked" ELSE "running"
             /\ sent4' = IF r.socket = 4 THEN Append(sent4, msg) ELSE sent4
             /\ sent6' = IF r.socket = 6 THEN Append(sent6, msg) ELSE sent6
             /\ handled' = Append(handled,
                    [frame |-> frame, addr |-> addr, outcome |-> r.outcome,
                     socket |-> r.socket, msg |-> r.msg, ret |-> r.ret])
    /\ UNCHANGED <<build, clock, reader4, reader6, raw4, raw6, udpOut, injected>>
    /\ UNCHANGED <<clientVars, codecVars>>

\* the same turn when the raw socket's send_to returns Err: send_to built
\* the message and advanced the counter, proxy_rx prints the error
ProxyRxSendErr(frame, addr) ==
    /\ mainTask = "running"
    /\ Len(handled) < MaxHandled
    /\ rxbuf' = recv_into(rxbuf, frame)
    /\ \E r \in {proxy_rx(recv_into(rxbuf, frame), Len(frame), addr, seq, clock,
                          build.cursor_checked)} :
         /\ r.outcome = "sent"
         /\ seq' = wrapping_inc16(seq)
         /\ handled' = Append(handled,
                [frame |-> frame, addr |-> addr, outcome |-> "error",
                 socket |-> r.socket, msg |-> r.msg, ret |-> -1])
    /\ UNCHANGED <<build, clock, mainTask, reader4, reader6, sent4, sent6,
                   raw4, raw6, udpOut, injected>>
    /\ UNCHANGED <<clientVars, codecVars>>

\* ping_rx sending to the address alone, the port left 0
ping_rx_port0(info) ==
    [dst |-> SocketAddr(info.target.ip, 0), buf |-> build_proxy_respone(info)]

\* ping_rx: the frame and the destination handed to the UDP socket
ping_rx(info) == [dst |-> info.target, buf |-> build_proxy_respone(info)]

\* what one turn of a reader's loop does with the datagram it reads:
\* [task, out]
reader_turn(d, now, checked) ==
    LET r == parse(d.buf, now, checked)
    IN  [task |-> IF r.kind = "Panic" THEN "panicked" ELSE "running",
         out  |-> IF r.kind = "Ok"
                  THEN <<[dst |-> ping_rx(r.info).dst, buf |-> ping_rx(r.info).buf,
                          origin |-> d.origin]>>
                  ELSE <<>>]

\* a reader that reads the datagram delivered last
PingV4Rx_newest_first ==
    /\ mainTask = "running" /\ reader4 = "running"
    /\ raw4 # <<>>
    /\ LET t == reader_turn(raw4[Len(raw4)], clock, build.overflow_checks)
       IN  /\ reader4' = t.task
           /\ udpOut' = udpOut \o t.out
    /\ raw4' = SubSeq(raw4, 1, Len(raw4) - 1)
    /\ UNCHANGED <<build, seq, clock, mainTask, reader6, rxbuf, sent4, sent6,
                   raw6, injected, handled>>
    /\ UNCHANGED <<clientVars, codecVars>>

\* one turn of ping_v4_rx's loop
PingV4Rx ==
    /\ mainTask = "running" /\ reader4 = "running"
    /\ raw4 # <<>>
    /\ LET t == reader_turn(Head(raw4), clock, build.overflow_checks)
       IN  /\ reader4' = t.task
           /\ udpOut' = udpOut \o t.out
    /\ raw4' = Tail(raw4)
    /\ UNCHANGED <<build, seq, clock, mainTask, reader6, rxbuf, sent4, sent6,
                   raw6, injected, handled>>
    /\ UNCHANGED <<clientVars, codecVars>>

\* one turn of ping_v6_rx's loop
PingV6Rx ==
    /\ mainTask = "running" /\ reader6 = "running"
    /\ raw6 # <<>>
    /\ LET t == reader_turn(Head(raw6), clock, build.overflow_checks)
       IN  /\ reader6' = t.task
           /\ udpOut' = udpOut \o t.out
    /\ raw6' = Tail(raw6)
    /\ UNCHANGED <<build, seq, clock, mainTask, reader4, rxbuf, sent4, sent6,
                   raw4, injected, handled>>
    /\ UNCHANGED <<clientVars, codecVars>>

\* a target answers an Echo Request the proxy sent it on the raw socket of
\* family
TargetEcho(family, i) ==
    LET sent == IF family = 4 THEN sent4 ELSE sent6
        raw  == IF family = 4 THEN raw4 ELSE raw6
        d    == [buf |-> datagram_of(family, EchoIhl, EchoTtl,
                                     echo_reply(family, sent[i].buf)),
                 origin |-> sent[i].origin]
    IN  /\ mainTask = "running"
        /\ i \in DOMAIN sent
        /\ Len(raw) < MaxRaw
        /\ ~sent[i].echoed
        /\ is_echo_request(family, sent[i].buf)
        /\ raw4' = IF family = 4 THEN Append(raw4, d) ELSE raw4
        /\ raw6' = IF family = 6 THEN Append(raw6, d) ELSE raw6
        /\ sent4' = IF family = 4 THEN [sent4 EXCEPT ![i].echoed = TRUE] ELSE sent4
        /\ sent6' = IF family = 6 THEN [sent6 EXCEPT ![i].echoed = TRUE] ELSE sent6
        /\ UNCHANGED <<build, seq, clock, mainTask, reader4, reader6, rxbuf,
                       udpOut, injected, handled>>
        /\ UNCHANGED <<clientVars, codecVars>>

NoOrigin == [client |-> SocketAddr(<<>>, 0), seq |-> -1]

\* a datagram of other origin arrives on the raw socket of family; at most
\* max of them in a run
Inject(family, d, max) ==
    /\ mainTask = "running"
    /\ injected < max
    /\ Len(IF family = 4 THEN raw4 ELSE raw6) < MaxRaw
    /\ raw4' = IF family = 4 THEN Append(raw4, [buf |-> d, origin |-> NoOrigin]) ELSE raw4
    /\ raw6' = IF family = 6 THEN Append(raw6, [buf |-> d, origin |-> NoOrigin]) ELSE raw6
    /\ injected' = injected + 1
    /\ UNCHANGED <<build, seq, clock, mainTask, reader4, reader6, rxbuf, sent4,
                   sent6, udpOut, handled>>
    /\ UNCHANGED <<clientVars, codecVars>>

Tick ==
    /\ mainTask = "running"
    /\ clock < MaxClock
    /\ clock' = clock + 1
    /\ UNCHANGED <<build, seq, mainTask, reader4, reader6, rxbuf, sent4, sent6,
                   raw4, raw6, udpOut, injected, handled>>
    /\ UNCHANGED <<clientVars, codecVars>>

\* The proxy with its clients and their targets; of the other traffic, one
\* forged Echo Reply per family.
\* The raw sockets take every message; SpecSeq has them refuse.
Next ==
    \/ \E r \in Requests : ProxyRx(r[2], r[1])
    \/ PingV4Rx
    \/ PingV6Rx
    \/ \E family \in {4, 6}, i \in 1..MaxHandled : TargetEcho(family, i)
    \/ \E family \in {4, 6} : Inject(family, Forged(family), MaxInject)
    \/ Tick

Spec == Init /\ [][Next]_vars

\* The proxy with two clients probing at once with well-formed requests.
\* No frame is short and no tx_time is ahead of the clock, so neither
\* property of the build is exercised and one build stands for all.
InitRoute ==
    /\ build = [overflow_checks |-> TRUE, cursor_checked |-> TRUE]
    /\ ProxyInit
    /\ ClientIdle
    /\ CodecIdle

RouteRequests ==
    ({ClientA} \X {build_request(7, 64, Target4), build_request(7, 64, Target6)})
        \cup ({ClientB} \X {build_request(9, 64, Target4), build_request(9, 64, Target6)})

NextRoute ==
    \/ \E r \in RouteRequests : ProxyRx(r[2], r[1])
    \/ PingV4Rx
    \/ PingV6Rx
    \/ \E family \in {4, 6}, i \in 1..MaxHandled : TargetEcho(family, i)
    \/ \E family \in {4, 6} : Inject(family, Forged(family), MaxInject)
    \/ Tick

SpecRoute == InitRoute /\ [][NextRoute]_vars

\* The client-to-ICMP path alone, the counter started at 0x0923 or, after
\* kin.sends calls of send_to, just below its wrap.
SeqSends == {0, 63195, 63196}

InitSeqStart ==
    /\ build \in Builds
    /\ kpc = "off" /\ kin \in [sends : SeqSends] /\ kout = <<>>
    /\ seq = (InitSeq + kin.sends) % 65536
    /\ clock = 0
    /\ mainTask = "running" /\ reader4 = "running" /\ reader6 = "running"
    /\ rxbuf = [i \in 1..RxBufLen |-> 0]
    /\ sent4 = <<>> /\ sent6 = <<>> /\ raw4 = <<>> /\ raw6 = <<>>
    /\ udpOut = <<>> /\ injected = 0 /\ handled = <<>>
    /\ ClientIdle

NextSeq ==
    \/ \E r \in Requests : ProxyRx(r[2], r[1])
    \/ \E r \in Requests : ProxyRxSendErr(r[2], r[1])
    \/ Tick

SpecSeq == InitSeqStart /\ [][NextSeq]_vars

\* The raw-socket readers under arbitrary inbound traffic.
NextRaw ==
    \/ PingV4Rx
    \/ PingV6Rx
    \/ \E d \in Foreign4 : Inject(4, d, MaxForeign)
    \/ \E d \in Foreign6 : Inject(6, d, MaxForeign)
    \/ Tick

SpecRaw == Init /\ [][NextRaw]_vars

-----------------------------------------------------------------------------
(* The engine's functions on drawn inputs: send_to builds a request, a     *)
(* target echoes it under an IP header, parse reads the echo.              *)

ProxyIdle ==
    /\ seq = InitSeq /\ clock = 0
    /\ mainTask = "off" /\ reader4 = "off" /\ reader6 = "off"
    /\ rxbuf = <<>> /\ sent4 = <<>> /\ sent6 = <<>> /\ raw4 = <<>> /\ raw6 = <<>>
    /\ udpOut = <<>> /\ injected = 0 /\ handled = <<>>

Client6 == SocketAddr(<<32, 1, 13, 184, 0, 0, 0, 0, 0, 0, 0, 0, 0, 0, 255, 254>>, 65535)

CodecClients == {ClientA, Client6}
CodecSeqs    == {0, 7, 2147483647}
CodecLens    == {36, 37, 49, 64}
CodecIseqs   == {InitSeq, 65535}
CodecNows    == {0, 70000}
CodecDelays  == {0, 300}
CodecIhls    == 5..15
CodecTtls    == {0, 55, 255}

InitCodec ==
    /\ build \in Builds
    /\ ProxyIdle
    /\ ClientIdle
    /\ kpc = "start"
    /\ kin \in [client : CodecClients, target : {Target4, Target6},
                client_seq : CodecSeqs, len : CodecLens,
                iseq : CodecIseqs, now : CodecNows]
    /\ kout = <<>>

\* send_to on the inputs drawn
CodecSendTo ==
    /\ kpc = "start"
    /\ \E r \in {send_to(kin.client, SocketAddr(kin.target, 0), kin.client_seq,
                         kin.len, kin.iseq, kin.now)} :
         /\ kpc' = IF r.panic THEN "panic" ELSE "sent"
         /\ kout' = [sent |-> r]
    /\ UNCHANGED <<build, kin, proxyVars, clientVars>>

\* the target's echo, under an IPv4 header of ihl words or an IPv6 header
CodecEcho(family, ihl, ttl) ==
    /\ kpc = "sent"
    /\ kpc' = "echoed"
    /\ kout' = [sent |-> kout.sent, family |-> family, ihl |-> ihl, ttl |-> ttl,
                dgram |-> datagram_of(family, ihl, ttl, echo_reply(family, kout.sent.buf))]
    /\ UNCHANGED <<build, kin, proxyVars, clientVars>>

\* parse on the echo, delay microseconds after the request was built
CodecParse(delay) ==
    /\ kpc = "echoed"
    /\ kpc' = "parsed"
    /\ kout' = [sent |-> kout.sent, family |-> kout.family, ihl |-> kout.ihl,
                ttl |-> kout.ttl, dgram |-> kout.dgram, delay |-> delay,
                res |-> parse(kout.dgram, kin.now + delay, build.overflow_checks)]
    /\ UNCHANGED <<build, kin, proxyVars, clientVars>>

NextCodec ==
    \/ CodecSendTo
    \/ \E ihl \in CodecIhls, ttl \in CodecTtls : CodecEcho(4, ihl, ttl)
    \/ \E ttl \in CodecTtls : CodecEcho(6, 0, ttl)
    \/ \E delay \in CodecDelays : CodecParse(delay)

SpecCodec == InitCodec /\ [][NextCodec]_vars

-----------------------------------------------------------------------------
(* The wire codec on drawn inputs: the client's build_request makes a      *)
(* frame, recv_from stores it in server()'s buffer, proxy_rx decodes it.   *)

WireSeqs    == {0, 1, 7, 2147483647}
WireLengths == {0, 64, 65535}
WireTargets == {Target4, <<255, 255, 255, 255>>, Target6, [i \in 1..16 |-> 255]}

InitWire ==
    /\ build \in Builds
    /\ ProxyIdle
    /\ ClientIdle
    /\ kpc = "wire"
    /\ kin \in [seq : WireSeqs, length : WireLengths, target : WireTargets]
    /\ kout = <<>>

\* the client builds the request
WireBuild ==
    /\ kpc = "wire"
    /\ kpc' = "built"
    /\ kout' = [frame |-> build_request(kin.seq, kin.length, kin.target)]
    /\ UNCHANGED <<build, kin, proxyVars, clientVars>>

\* server() receives the frame into its buffer and proxy_rx decodes it
WireDecode ==
    /\ kpc = "built"
    /\ kpc' = "decoded"
    /\ kout' = [frame |-> kout.frame,
                dec   |-> proxy_rx_decode(
                              recv_into([i \in 1..RxBufLen |-> 0], kout.frame),
                              Len(kout.frame), build.cursor_checked)]
    /\ UNCHANGED <<build, kin, proxyVars, clientVars>>

NextWire ==
    \/ WireBuild
    \/ WireDecode

SpecWire == InitWire /\ [][NextWire]_vars

-----------------------------------------------------------------------------
(* parse on drawn datagrams: datagrams made field by field as any host can *)
(* make them, and datagrams parse accepts with one bit flipped.            *)

OtherMagic == 16909060      \* 0x01020304

ParseTx  == 5               \* the tx_time written in the payload
ParseNow == 300             \* the clock when parse runs
ParseFill == 12             \* filler bytes after the payload, when there are any

\* the ICMP type byte: the Echo Reply or the Echo Request of the version
TypeOf(ver, type) ==
    IF type = "reply" THEN (IF ver = 6 THEN 129 ELSE 0)
    ELSE (IF ver = 6 THEN 128 ELSE 8)

\* the private payload with the magic and pid given, its checksum off by sum
crafted_payload(magic, pid, client, sum) ==
    LET body == U32BE(magic) \o <<0, 0>> \o U32BE(pid) \o U32BE(3)
                    \o U64BE(ParseTx) \o U16BE(client.port)
                    \o <<Len(client.ip)>> \o client.ip
    IN  set_u16(body, 4, (ip_checksum(body) + sum) % 65536)

\* the datagram: an IP header of version k.ver, the ICMP header, and the
\* first k.keep bytes of the payload and its filler
crafted(k) ==
    LET icmp == <<TypeOf(k.ver, k.type), 0, 0, 0>>
                    \o U16BE(identifier) \o U16BE(InitSeq)
                    \o SubSeq(crafted_payload(k.magic, k.pid, k.client, k.sum)
                                  \o filler(ParseFill), 1, k.keep)
    IN  IF k.ver = 6 THEN ipv6_datagram(64, icmp)
        ELSE [ipv4_datagram(5, 64, icmp) EXCEPT ![1] = k.ver * 16 + 5]

\* where the payload starts in a crafted datagram
CraftedMagicIndex(k) == (IF k.ver = 6 THEN 40 ELSE 20) + 8

PayloadLen(client) == 25 + Len(client.ip)

\* payload bytes kept: none, part of the magic, the magic, part of the pid,
\* the pid, the whole payload, the payload and filler
ParseKeeps(client) ==
    {0, 3, 4, 9, 10, PayloadLen(client), PayloadLen(client) + ParseFill}

ParseInputs ==
    UNION {[ver : {4, 5, 6}, type : {"reply", "request"},
            magic : {PING_MAGIC, OtherMagic}, pid : {ProxyPid, ProxyPid + 1},
            sum : {0, 1}, client : {c}, keep : ParseKeeps(c)]
           : c \in {ClientA, Client6}}

\* byte v with bit b flipped
FlipBit(v, b) == IF (v \div (2 ^ b)) % 2 = 1 THEN v - 2 ^ b ELSE v + 2 ^ b

InitParse ==
    /\ build \in {[overflow_checks |-> b, cursor_checked |-> TRUE] : b \in BOOLEAN}
    /\ ProxyIdle
    /\ ClientIdle
    /\ kpc = "parse"
    /\ kin \in ParseInputs
    /\ kout = <<>>

\* the datagram arrives as it was made
ParseCraft ==
    /\ kpc = "parse"
    /\ kpc' = "crafted"
    /\ kout' = [dgram |-> crafted(kin), flip |-> <<>>]
    /\ UNCHANGED <<build, kin, proxyVars, clientVars>>

\* a datagram parse accepts arrives with bit b of payload byte p flipped,
\* the checksum field (bytes 4 and 5) excepted
ParseTamper(p, b) ==
    /\ kpc = "crafted"
    /\ kout.flip = <<>>
    /\ parse(kout.dgram, ParseNow, build.overflow_checks).kind = "Ok"
    /\ p < PayloadLen(kin.client) /\ p \notin {4, 5}
    /\ kout' = [dgram |-> [kout.dgram EXCEPT ![CraftedMagicIndex(kin) + p + 1] =
                                                FlipBit(@, b)],
                flip  |-> <<p, b>>]
    /\ UNCHANGED <<build, kpc, kin, proxyVars, clientVars>>

\* recv_from_v4 / recv_from_v6 hands the datagram to parse
ParseRun ==
    /\ kpc = "crafted"
    /\ kpc' = "parsed"
    /\ kout' = [dgram |-> kout.dgram, flip |-> kout.flip,
                res |-> parse(kout.dgram, ParseNow, build.overflow_checks)]
    /\ UNCHANGED <<build, kin, proxyVars, clientVars>>

NextParse ==
    \/ ParseCraft
    \/ \E p \in 0..40, b \in 0..7 : ParseTamper(p, b)
    \/ ParseRun

SpecParse == InitParse /\ [][NextParse]_vars

-----------------------------------------------------------------------------
(* ip_checksum on drawn buffers: the checksum of the buffer with its       *)
(* checksum field zeroed is installed in the field, as icmp_request_build  *)
(* does twice, and ip_checksum is run over the whole buffer.               *)

MaxSumLen == 7      \* the longest buffer drawn

SumBytes == {0, 1, 255}

SumBuffers == UNION {[1..n -> SumBytes] : n \in 2..MaxSumLen}

InitSum ==
    /\ build \in {[overflow_checks |-> TRUE, cursor_checked |-> TRUE]}
    /\ ProxyIdle
    /\ ClientIdle
    /\ kpc = "sum"
    /\ kin \in SumBuffers
    /\ kout = <<>>

\* the field at offset is cleared, the checksum computed and written there
SumInstall(offset) ==
    /\ kpc = "sum"
    /\ offset % 2 = 0 /\ offset + 2 <= Len(kin)
    /\ kpc' = "installed"
    /\ LET cleared == set_u16(kin, offset, 0)
       IN  kout' = [offset |-> offset, sum |-> ip_checksum(cleared),
                    buf |-> set_u16(cleared, offset, ip_checksum(cleared))]
    /\ UNCHANGED <<build, kin, proxyVars, clientVars>>

\* ip_checksum over the buffer with the checksum in place
SumVerify ==
    /\ kpc = "installed"
    /\ kpc' = "verified"
    /\ kout' = [offset |-> kout.offset, sum |-> kout.sum, buf |-> kout.buf,
                check |-> ip_checksum(kout.buf)]
    /\ UNCHANGED <<build, kin, proxyVars, clientVars>>

NextSum ==
    \/ \E offset \in 0..(MaxSumLen - 2) : SumInstall(offset)
    \/ SumVerify

SpecSum == InitSum /\ [][NextSum]_vars

-----------------------------------------------------------------------------
(* The client probe loop.                                                  *)

MaxProbes == 3      \* probes a client run sends when its count is unbounded

U32_MAX == <<255, 255, 255, 255>>

\* a + b modulo 2^64 on 8-byte big-endian values
RECURSIVE AddCarry(_, _, _, _)
AddCarry(a, b, i, carry) ==
    IF i = 0 THEN <<>>
    ELSE LET d == a[i] + b[i] + carry
         IN  AddCarry(a, b, i - 1, d \div 256) \o <<d % 256>>

WrappingAdd64(a, b) == AddCarry(a, b, 8, 0)

StatsNew ==
    [rtt_min |-> U32_MAX, rtt_max |-> <<0, 0, 0, 0>>,
     rtt_total |-> <<0, 0, 0, 0, 0, 0, 0, 0>>,
     rx_count |-> 0, tx_count |-> 0, lost_count |-> 0, timeout_count |-> 0]

\* update_stats counting a reply only when it carries a time
update_stats_timed_only(st, elapse) ==
    IF elapse = U32_MAX THEN st
    ELSE [st EXCEPT
            !.rtt_min = IF LessBytes(elapse, @, 1) THEN elapse ELSE @,
            !.rtt_max = IF LessBytes(@, elapse, 1) THEN elapse ELSE @,
            !.rtt_total = WrappingAdd64(@, <<0, 0, 0, 0>> \o elapse),
            !.rx_count = @ + 1]

\* elapse is the reply's field, 4 bytes
update_stats(st, elapse) ==
    LET timed == [st EXCEPT
                    !.rtt_min = IF LessBytes(elapse, @, 1) THEN elapse ELSE @,
                    !.rtt_max = IF LessBytes(@, elapse, 1) THEN elapse ELSE @,
                    !.rtt_total = WrappingAdd64(@, <<0, 0, 0, 0>> \o elapse)]
    IN  [(IF elapse # U32_MAX THEN timed ELSE st) EXCEPT !.rx_count = @ + 1]

\* process_reply reads seq, elapse and ttl off the frame and updates stats
process_reply(st, frame) == update_stats(st, Slice(frame, 4, 4))

\* run going on to await a reply after a failed send
after_send_error_recv == "recv"

\* where run goes after a failed send: `continue`
after_send_error == "top"

\* -c values: 0 is unbounded
ClientCounts == {0, 1, 2}

\* elapse values the proxy may report
ReplyElapses == {U32BE(0), U32BE(1500), U32_MAX}

InitClient ==
    /\ build = [overflow_checks |-> FALSE, cursor_checked |-> TRUE]
    /\ ProxyIdle
    /\ CodecIdle
    /\ args \in [count : ClientCounts]
    /\ cpc = "top"
    /\ count = args.count
    /\ cseq = 0
    /\ stats = StatsNew
    /\ pending = {}
    /\ inbox = <<>>
    /\ accepted = <<>>
    /\ printed = <<>>
    /\ ioerr = FALSE

\* the count test made after the decrement
ClientTop_test_after_decrement ==
    /\ cpc = "top"
    /\ IF args.count # 0 /\ count <= 1
       THEN /\ cpc' = "done"
            /\ printed' = <<stats>>
            /\ count' = count
       ELSE /\ cpc' = IF cseq # 0 THEN "sleep" ELSE "tx"
            /\ count' = IF args.count # 0 THEN count - 1 ELSE count
            /\ printed' = printed
    /\ UNCHANGED <<build, ioerr, args, cseq, stats, pending, inbox, accepted>>
    /\ UNCHANGED <<proxyVars, codecVars>>

\* the head of the loop: the count test
ClientTop ==
    /\ cpc = "top"
    /\ IF args.count # 0 /\ count = 0
       THEN /\ cpc' = "done"
            /\ printed' = <<stats>>
            /\ count' = count
       ELSE /\ cpc' = IF cseq # 0 THEN "sleep" ELSE "tx"
            /\ count' = IF args.count # 0 THEN count - 1 ELSE count
            /\ printed' = printed
    /\ UNCHANGED <<build, ioerr, args, cseq, stats, pending, inbox, accepted>>
    /\ UNCHANGED <<proxyVars, codecVars>>

\* the pacing sleep is over
ClientSleep ==
    /\ cpc = "sleep"
    /\ cpc' = "tx"
    /\ UNCHANGED <<build, ioerr, args, count, cseq, stats, pending, inbox, accepted, printed>>
    /\ UNCHANGED <<proxyVars, codecVars>>

\* seq += 1, tx_count = seq, the request is built and handed to send
ClientTx ==
    /\ cpc = "tx"
    /\ cseq < MaxProbes
    /\ cseq' = cseq + 1
    /\ stats' = [stats EXCEPT !.tx_count = cseq + 1]
    /\ cpc' = "send"
    /\ UNCHANGED <<build, ioerr, args, count, pending, inbox, accepted, printed>>
    /\ UNCHANGED <<proxyVars, codecVars>>

\* socket.send returned Ok
ClientSendOk ==
    /\ cpc = "send"
    /\ cpc' = "recv"
    /\ pending' = pending \cup {cseq}
    /\ UNCHANGED <<build, ioerr, args, count, cseq, stats, inbox, accepted, printed>>
    /\ UNCHANGED <<proxyVars, codecVars>>

\* a failed send counted as a timeout
ClientSendErr_counts_timeout ==
    /\ cpc = "send"
    /\ stats' = [stats EXCEPT !.timeout_count = @ + 1]
    /\ cpc' = after_send_error
    /\ ioerr' = TRUE
    /\ UNCHANGED <<build, args, count, cseq, pending, inbox, accepted, printed>>
    /\ UNCHANGED <<proxyVars, codecVars>>

\* socket.send returned Err
ClientSendErr ==
    /\ cpc = "send"
    /\ stats' = [stats EXCEPT !.lost_count = @ + 1]
    /\ cpc' = after_send_error
    /\ ioerr' = TRUE
    /\ UNCHANGED <<build, args, count, cseq, pending, inbox, accepted, printed>>
    /\ UNCHANGED <<proxyVars, codecVars>>

\* the reply deadline passed with nothing to read
ClientTimeout ==
    /\ cpc = "recv"
    /\ inbox = <<>>
    /\ stats' = [stats EXCEPT !.timeout_count = @ + 1]
    /\ cpc' = "top"
    /\ UNCHANGED <<build, ioerr, args, count, cseq, pending, inbox, accepted, printed>>
    /\ UNCHANGED <<proxyVars, codecVars>>

\* socket.recv returned Err
ClientRecvErr ==
    /\ cpc = "recv"
    /\ stats' = [stats EXCEPT !.lost_count = @ + 1]
    /\ cpc' = "top"
    /\ ioerr' = TRUE
    /\ UNCHANGED <<build, args, count, cseq, pending, inbox, accepted, printed>>
    /\ UNCHANGED <<proxyVars, codecVars>>

\* socket.recv returned a datagram: process_reply
ClientRecvOk ==
    /\ cpc = "recv"
    /\ inbox # <<>>
    /\ stats' = process_reply(stats, Head(inbox))
    /\ accepted' = Append(accepted, <<cseq, Head(inbox)>>)
    /\ inbox' = Tail(inbox)
    /\ cpc' = "top"
    /\ UNCHANGED <<build, ioerr, args, count, cseq, pending, printed>>
    /\ UNCHANGED <<proxyVars, codecVars>>

\* handle_signals: SIGINT prints the stats and exits the process
SigInt ==
    /\ cpc \notin {"done", "exited"}
    /\ printed' = <<stats>>
    /\ cpc' = "exited"
    /\ UNCHANGED <<build, ioerr, args, count, cseq, stats, pending, inbox, accepted>>
    /\ UNCHANGED <<proxyVars, codecVars>>

\* the proxy's reply to the request with seq sq reaches the client's socket
ReplyArrives(sq, elapse) ==
    /\ cpc \notin {"done", "exited"}
    /\ sq \in pending
    /\ pending' = pending \ {sq}
    /\ inbox' = Append(inbox,
           build_proxy_respone([seq |-> sq, elapse |-> elapse, ttl |-> EchoTtl]))
    /\ UNCHANGED <<build, ioerr, args, cpc, count, cseq, stats, accepted, printed>>
    /\ UNCHANGED <<proxyVars, codecVars>>

NextClient ==
    \/ ClientTop
    \/ ClientSleep
    \/ ClientTx
    \/ ClientSendOk
    \/ ClientSendErr
    \/ ClientTimeout
    \/ ClientRecvErr
    \/ ClientRecvOk
    \/ SigInt
    \/ \E sq \in 1..MaxProbes, elapse \in ReplyElapses : ReplyArrives(sq, elapse)

SpecClient == InitClient /\ [][NextClient]_vars

\* The client when its own steps are taken and every send and every reply
\* wait returns: with Ok or Err, with a datagram, or at its deadline.  A
\* SIGINT may come or not.
ClientFairness ==
    /\ WF_vars(ClientTop)
    /\ WF_vars(ClientSleep)
    /\ WF_vars(ClientTx)
    /\ WF_vars(ClientSendOk \/ ClientSendErr)
    /\ WF_vars(ClientTimeout \/ ClientRecvErr \/ ClientRecvOk)

SpecClientLive == InitClient /\ [][NextClient]_vars /\ ClientFairness

-----------------------------------------------------------------------------
(* The probe loop with seq and the counters of Stats at their width, u32   *)
(* kept as 4 big-endian bytes, late in a run: 2^32 - 2 probes have been    *)
(* sent and have had their outcomes.                                       *)

ProbesPastWrap == 1     \* the last seq sent, seq having wrapped to 0

Zero32 == <<0, 0, 0, 0>>

\* x + y on u32: [panic, value]; the sum wraps where the build does not
\* check overflow and panics where it does
add_u32(x, y, checked) ==
    LET sum == WrappingAdd64(Zero32 \o x, Zero32 \o y)
    IN  [panic |-> checked /\ SubSeq(sum, 1, 4) # Zero32, value |-> SubSeq(sum, 5, 8)]

\* x - 1 on a u32 above 0
dec_u32(x) == SubSeq(WrappingSub64(Zero32 \o x, U64BE(1)), 5, 8)

\* update_stats on u32 counters: [panic, stats]
update_stats_u32(st, elapse, checked) ==
    LET timed == [st EXCEPT
                    !.rtt_min = IF LessBytes(elapse, @, 1) THEN elapse ELSE @,
                    !.rtt_max = IF LessBytes(@, elapse, 1) THEN elapse ELSE @,
                    !.rtt_total = WrappingAdd64(@, Zero32 \o elapse)]
        rx    == add_u32(st.rx_count, U32BE(1), checked)
    IN  [panic |-> rx.panic,
         stats |-> [(IF elapse # U32_MAX THEN timed ELSE st) EXCEPT !.rx_count = rx.value]]

\* Stats after n probes that all had the outcome named by field
StatsAllOf(field, n) ==
    [[StatsNew EXCEPT !.rx_count = Zero32, !.lost_count = Zero32,
                      !.timeout_count = Zero32, !.tx_count = n]
        EXCEPT ![field] = n,
               !.rtt_min = IF field = "rx_count" THEN Zero32 ELSE @]

LateSeq == <<255, 255, 255, 254>>      \* 2^32 - 2

\* -c 0 runs without end; with no -c the count is u32::MAX, of which one
\* probe is left
InitClientLate ==
    /\ build \in [overflow_checks : BOOLEAN, cursor_checked : {TRUE}]
    /\ ProxyIdle
    /\ CodecIdle
    /\ args \in [count : {Zero32, U32_MAX}]
    /\ cpc = "top"
    /\ count = IF args.count = Zero32 THEN Zero32 ELSE U32BE(1)
    /\ cseq = LateSeq
    /\ stats \in {StatsAllOf(f, LateSeq) : f \in {"rx_count", "lost_count", "timeout_count"}}
    /\ pending = {}
    /\ inbox = <<>>
    /\ accepted = <<>>
    /\ printed = <<>>
    /\ ioerr = FALSE

\* the head of the loop: the count test
ClientTopU32 ==
    /\ cpc = "top"
    /\ IF args.count # Zero32 /\ count = Zero32
       THEN /\ cpc' = "done"
            /\ printed' = <<stats>>
            /\ count' = count
       ELSE /\ cpc' = IF cseq # Zero32 THEN "sleep" ELSE "tx"
            /\ count' = IF args.count # Zero32 THEN dec_u32(count) ELSE count
            /\ printed' = printed
    /\ UNCHANGED <<build, ioerr, args, cseq, stats, pending, inbox, accepted>>
    /\ UNCHANGED <<proxyVars, codecVars>>

\* seq += 1, tx_count = seq, the request is built and handed to send
ClientTxU32 ==
    /\ cpc = "tx"
    /\ cseq # U32BE(ProbesPastWrap)
    /\ LET r == add_u32(cseq, U32BE(1), build.overflow_checks)
       IN  IF r.panic
           THEN cpc' = "panicked" /\ UNCHANGED <<cseq, stats>>
           ELSE /\ cseq' = r.value
                /\ stats' = [stats EXCEPT !.tx_count = r.value]
                /\ cpc' = "send"
    /\ UNCHANGED <<build, ioerr, args, count, pending, inbox, accepted, printed>>
    /\ UNCHANGED <<proxyVars, codecVars>>

\* `stats.<field> += 1` and `continue`
CountAndContinue(field) ==
    LET r == add_u32(stats[field], U32BE(1), build.overflow_checks)
    IN  IF r.panic
        THEN cpc' = "panicked" /\ stats' = stats
        ELSE cpc' = "top" /\ stats' = [stats EXCEPT ![field] = r.value]

\* socket.send returned Err
ClientSendErrU32 ==
    /\ cpc = "send"
    /\ CountAndContinue("lost_count")
    /\ ioerr' = TRUE
    /\ UNCHANGED <<build, args, count, cseq, pending, inbox, accepted, printed>>
    /\ UNCHANGED <<proxyVars, codecVars>>

\* the reply deadline passed with nothing to read
ClientTimeoutU32 ==
    /\ cpc = "recv"
    /\ inbox = <<>>
    /\ CountAndContinue("timeout_count")
    /\ UNCHANGED <<build, ioerr, args, count, cseq, pending, inbox, accepted, printed>>
    /\ UNCHANGED <<proxyVars, codecVars>>

\* socket.recv returned Err
ClientRecvErrU32 ==
    /\ cpc = "recv"
    /\ CountAndContinue("lost_count")
    /\ ioerr' = TRUE
    /\ UNCHANGED <<build, args, count, cseq, pending, inbox, accepted, printed>>
    /\ UNCHANGED <<proxyVars, codecVars>>

\* socket.recv returned a datagram: process_reply
ClientRecvOkU32 ==
    /\ cpc = "recv"
    /\ inbox # <<>>
    /\ LET r == update_stats_u32(stats, Slice(Head(inbox), 4, 4), build.overflow_checks)
       IN  IF r.panic
           THEN cpc' = "panicked" /\ stats' = stats
           ELSE cpc' = "top" /\ stats' = r.stats
    /\ accepted' = Append(accepted, <<cseq, Head(inbox)>>)
    /\ inbox' = Tail(inbox)
    /\ UNCHANGED <<build, ioerr, args, count, cseq, pending, printed>>
    /\ UNCHANGED <<proxyVars, codecVars>>

\* the proxy's reply to the request with seq sq reaches the client's socket
ReplyArrivesU32(sq, elapse) ==
    /\ cpc \notin {"done", "exited", "panicked"}
    /\ sq \in pending
    /\ pending' = pending \ {sq}
    /\ inbox' = Append(inbox, sq \o elapse \o <<EchoTtl>>)
    /\ UNCHANGED <<build, ioerr, args, cpc, count, cseq, stats, accepted, printed>>
    /\ UNCHANGED <<proxyVars, codecVars>>

NextClientLate ==
    \/ ClientTopU32
    \/ ClientSleep
    \/ ClientTxU32
    \/ ClientSendOk
    \/ ClientSendErrU32
    \/ ClientTimeoutU32
    \/ ClientRecvErrU32
    \/ ClientRecvOkU32
    \/ SigInt /\ cpc # "panicked"
    \/ \E sq \in pending, elapse \in ReplyElapses : ReplyArrivesU32(sq, elapse)

SpecClientLate == InitClientLate /\ [][NextClientLate]_vars

-----------------------------------------------------------------------------
(* C1: the echo of every request send_to builds, under an IPv4 header of   *)
(* any IHL 5..15 or an IPv6 header carrying ttl t, parses to Ok with the   *)
(* request's client_seq, the client's ip and port, and ttl t.              *)
C1_RoundTrip ==
    kpc = "parsed" =>
        /\ kout.res.kind = "Ok"
        /\ kout.res.info.seq = kin.client_seq
        /\ kout.res.info.target.ip = kin.client.ip
        /\ kout.res.info.target.port = kin.client.port
        /\ kout.res.info.ttl = kout.ttl

C1_Witness ==
    /\ kpc = "parsed"
    /\ kin.client = Client6 /\ kin.client_seq = 2147483647
    /\ kout.family = 4 /\ kout.ihl = 15 /\ kout.ttl = 255
    /\ kout.res.kind = "Ok" /\ kout.res.info.target = Client6

-----------------------------------------------------------------------------
(* C2: with two clients on one IP and different ports probing through the  *)
(* proxy at once, every UDP reply made from the echo of a client's request *)
(* is addressed to that client's (ip, port) and carries that client's seq. *)
C2_RoutedToOrigin ==
    \A k \in DOMAIN udpOut :
        udpOut[k].origin # NoOrigin =>
            /\ udpOut[k].dst = udpOut[k].origin.client
            /\ GetU32(udpOut[k].buf, 0) = udpOut[k].origin.seq

\* ClientA asked first, both requests were out, ClientB was answered first
C2_Witness ==
    /\ Len(handled) = 2 /\ Len(udpOut) = 2
    /\ handled[1].addr = ClientA /\ handled[2].addr = ClientB
    /\ udpOut[1].origin.client = ClientB /\ udpOut[1].dst = ClientB
    /\ GetU32(udpOut[1].buf, 0) = 9
    /\ udpOut[2].origin.client = ClientA /\ udpOut[2].dst = ClientA
    /\ GetU32(udpOut[2].buf, 0) = 7

-----------------------------------------------------------------------------
(* The client-to-proxy frame as the interface defines it.                  *)

FrameHostLen(frame) == frame[7]

\* the total length is not 7 + host_len, or the fixed header is not whole
Malformed(frame) == Len(frame) < 7 \/ FrameHostLen(frame) + 7 # Len(frame)

\* a request of the interface: host_len 4 or 16 and the matching length
WellFormed(frame) == ~Malformed(frame) /\ FrameHostLen(frame) \in {4, 16}

(* C3: every datagram the client accepts as the reply to its most recent   *)
(* probe carries that probe's seq.                                         *)
C3_AcceptedIsCurrent ==
    \A k \in DOMAIN accepted : GetU32(accepted[k][2], 0) = accepted[k][1]

(* C4: the client sends the request with seq n+1 only when probe n has     *)
(* reached exactly one outcome: at every step that advances seq, the       *)
(* outcomes counted so far (replies, timeouts, send and receive errors)    *)
(* number exactly the probes sent so far.                                  *)
Outcomes(st) == st.rx_count + st.lost_count + st.timeout_count

C4_OneOutstanding ==
    [][cseq' # cseq => (cseq' = cseq + 1 /\ Outcomes(stats) = cseq)]_vars

\* the third probe goes out after a send error and a timeout
C4_Witness ==
    /\ cpc = "send" /\ cseq = 3
    /\ stats.lost_count = 1 /\ stats.timeout_count = 1 /\ stats.rx_count = 0

(* C5: whenever the stats lock is free, tx_count = rx_count + lost_count + *)
(* timeout_count + in_flight with in_flight 0 or 1, in_flight being 1      *)
(* exactly between the send of a probe and its outcome; what a SIGINT      *)
(* prints satisfies it; and at loop exit in_flight = 0.                    *)
InFlight == IF cpc \in {"send", "recv"} THEN 1 ELSE 0

Accounted(st, in_flight) == st.tx_count = Outcomes(st) + in_flight

C5_Accounting ==
    /\ cpc \in {"top", "sleep", "tx", "send", "recv", "done"} => Accounted(stats, InFlight)
    /\ cpc = "exited" => \E f \in {0, 1} : Accounted(printed[1], f)
    /\ cpc = "done" => Accounted(printed[1], 0)

\* a SIGINT while the second probe awaits its reply, the first one answered
\* with the reserved elapse
C5_Witness ==
    /\ cpc = "exited"
    /\ printed[1].tx_count = 2 /\ printed[1].rx_count = 1
    /\ printed[1].lost_count = 0 /\ printed[1].timeout_count = 0
    /\ printed[1].rtt_min = U32_MAX

(* C6: a UDP datagram whose length is not 7 + host_len, a datagram shorter *)
(* than the fixed header included, is dropped: no ICMP message, no abort.  *)
C6_MalformedDropped ==
    \A k \in DOMAIN handled :
        Malformed(handled[k].frame) => handled[k].outcome = "drop"

(* C7: a frame whose host_len is neither 4 nor 16 is rejected with no ICMP *)
(* message sent, also when its length is 7 + host_len.                     *)
C7_OnlyHostLen4Or16 ==
    \A k \in DOMAIN handled :
        (Len(handled[k].frame) >= 7 /\ FrameHostLen(handled[k].frame) \notin {4, 16})
            => handled[k].outcome = "drop"

(* C8: a message sent to an IPv4 target has type 8 and goes out on the     *)
(* ICMPv4 socket; one sent to an IPv6 target has type 128 and goes out on  *)
(* the ICMPv6 socket.                                                      *)
C8_TypeFollowsTarget ==
    /\ \A k \in DOMAIN sent4 : is_ipv4(sent4[k].target.ip) /\ sent4[k].buf[1] = 8
    /\ \A k \in DOMAIN sent6 : ~is_ipv4(sent6[k].target.ip) /\ sent6[k].buf[1] = 128

(* C9: for every accepted request with packet_length len, send_to emits    *)
(* one ICMP message of exactly len bytes whose filler byte i is i & 0xFF,  *)
(* and returns len.                                                        *)
PayloadEnd(msg) == 8 + 25 + msg[8 + 25]

C9_LengthAndPadding ==
    \A k \in DOMAIN handled :
        WellFormed(handled[k].frame) =>
            LET len == GetU16(handled[k].frame, 4)
                msg == handled[k].msg
            IN  /\ handled[k].outcome = "sent"
                /\ Len(msg) = len
                /\ handled[k].ret = len
                /\ \A i \in 0..(len - PayloadEnd(msg) - 1) :
                       GetU8(msg, PayloadEnd(msg) + i) = i % 256

(* C10: whatever datagram a raw socket delivers, the reader that reads it  *)
(* goes on running.                                                        *)
C10_ReadersSurvive == reader4 # "panicked" /\ reader6 # "panicked"

-----------------------------------------------------------------------------
\* the datagram d is an Echo Reply of its IP version (type 0 under an IPv4
\* header, 129 under an IPv6 header) whose private payload carries the
\* magic, this proxy's pid and a checksum that verifies; the payload runs
\* from the magic to the last host byte parse reads
ValidEcho(d) ==
    LET ver   == d[1] \div 16
        off   == IF ver = 4 THEN (d[1] % 16) * 4 ELSE 40
        m     == off + 8
        hsize == IF d[m + 25] = 4 THEN 4 ELSE 16
        body  == set_u16(Slice(d, m, 25 + hsize), 4, 0)
    IN  /\ ver \in {4, 6}
        /\ Len(d) >= m + 25
        /\ Len(d) >= m + 25 + hsize
        /\ d[off + 1] = (IF ver = 4 THEN 0 ELSE 129)
        /\ Slice(d, m, 4) = U32BE(PING_MAGIC)
        /\ Slice(d, m + 6, 4) = U32BE(ProxyPid)
        /\ GetU16(d, m + 4) = ip_checksum(body)

(* C11: every step that sends a frame to a client is a reader taking a     *)
(* datagram off its raw socket, and that datagram is an Echo Reply (type 0 *)
(* for IPv4, 129 for IPv6) carrying the magic 0x19170923, this proxy's pid *)
(* and a private checksum that verifies.                                   *)
C11_OnlyValidatedEcho ==
    [][udpOut' # udpOut =>
          \/ raw4 # <<>> /\ raw4' = Tail(raw4) /\ raw6' = raw6
                /\ ValidEcho(Head(raw4).buf)
          \/ raw6 # <<>> /\ raw6' = Tail(raw6) /\ raw4' = raw4
                /\ ValidEcho(Head(raw6).buf)]_vars

\* of three datagrams delivered, two were dropped and one answered
C11_Witness ==
    /\ injected = MaxForeign /\ raw4 = <<>> /\ raw6 = <<>>
    /\ Len(udpOut) = 1
    /\ udpOut[1].dst = Victim
    /\ reader4 = "running" /\ reader6 = "running"

-----------------------------------------------------------------------------
\* no reply has reached the client's socket
NoReply == inbox = <<>> /\ accepted = <<>>

(* C12: with a count N > 0 and every send and reply wait returning, the    *)
(* client (unless a SIGINT ends it) numbers its probes 1, 2, .. up to N,   *)
(* then leaves the loop, and does so with seq = tx_count = N; when no      *)
(* reply arrived and no send or receive failed, the stats it leaves with   *)
(* are rx_count = 0, lost_count = 0, timeout_count = N.                    *)
C12_BoundedRun ==
    /\ [][cseq' # cseq => (cseq' = cseq + 1 /\ (args.count > 0 => cseq < args.count))]_vars
    /\ [](cpc = "done" =>
            /\ args.count > 0
            /\ cseq = args.count
            /\ stats.tx_count = args.count
            /\ (NoReply /\ ~ioerr =>
                    /\ stats.rx_count = 0
                    /\ stats.lost_count = 0
                    /\ stats.timeout_count = args.count))
    /\ [](args.count > 0 => <>(cpc \in {"done", "exited"}))

\* -c 2 against a target that never answers
C12_Witness ==
    /\ cpc = "done" /\ args.count = 2 /\ NoReply /\ ~ioerr
    /\ printed[1].tx_count = 2 /\ printed[1].timeout_count = 2

-----------------------------------------------------------------------------
(* C13: every frame build_request makes for (seq, length, target), the     *)
(* target an IPv4 or IPv6 address, is 7 + host_len bytes long with         *)
(* host_len 4 or 16, is accepted by proxy_rx, and is decoded there to the  *)
(* same seq, the same packet_length and the same target address.           *)
C13_WireRoundTrip ==
    /\ kpc \in {"built", "decoded"} =>
          /\ Len(kout.frame) = 7 + FrameHostLen(kout.frame)
          /\ FrameHostLen(kout.frame) \in {4, 16}
          /\ FrameHostLen(kout.frame) = Len(kin.target)
    /\ kpc = "decoded" =>
          /\ kout.dec.kind = "send"
          /\ kout.dec.seq = kin.seq
          /\ kout.dec.pkt_len = kin.length
          /\ kout.dec.target.ip = kin.target

C13_Witness ==
    /\ kpc = "decoded"
    /\ kin.seq = 2147483647 /\ kin.length = 65535 /\ kin.target = Target6
    /\ kout.dec.kind = "send" /\ kout.dec.target = SocketAddr(Target6, 0)

-----------------------------------------------------------------------------
(* C14: for every buffer, of even or odd length, with a 16-bit checksum    *)
(* field at an even offset: ip_checksum of the buffer with the field       *)
(* zeroed, stored big-endian in the field, makes ip_checksum of the whole  *)
(* buffer 0.                                                               *)
C14_ChecksumVerifies ==
    kpc = "verified" => kout.check = 0

\* an odd-length buffer whose sum carries twice: ff ff ff ff | field | 01
C14_Witness ==
    /\ kpc = "verified"
    /\ kin = <<255, 255, 255, 255, 0, 0, 1>>
    /\ kout.offset = 4
    /\ kout.sum = 65534
    /\ kout.check = 0

-----------------------------------------------------------------------------
\* parse has run on a datagram as it was made, no bit flipped
ParsedAsMade == kpc = "parsed" /\ kout.flip = <<>>

\* the datagram has its IP version and the Echo Reply type of that version
EchoReplyHeader(k) == k.ver \in {4, 6} /\ k.type = "reply"

(* C15 as stated: parse returns Magic for every datagram whose private     *)
(* payload does not begin with the magic, whatever its IP version and      *)
(* ICMP type.                                                              *)
C15_MagicWhateverHeader ==
    (ParsedAsMade /\ kin.magic # PING_MAGIC) => kout.res = Err("Magic")

(* C15 amended: parse returns Magic for every datagram of IP version 4 or  *)
(* 6 with the Echo Reply type of that version that holds four payload      *)
(* bytes other than the magic, whatever follows them; a datagram of        *)
(* another version gets IpHeader and one of another type gets Type, the    *)
(* magic not looked at.                                                    *)
C15_MagicAfterHeader ==
    ParsedAsMade =>
        /\ (EchoReplyHeader(kin) /\ kin.magic # PING_MAGIC /\ kin.keep >= 4)
              => kout.res = Err("Magic")
        /\ kin.ver \notin {4, 6} => kout.res = Err("IpHeader")
        /\ (kin.ver \in {4, 6} /\ kin.type # "reply") => kout.res = Err("Type")

\* an IPv6 Echo Reply cut right after four bytes that are not the magic
C15_Witness ==
    /\ ParsedAsMade
    /\ kin.ver = 6 /\ kin.type = "reply" /\ kin.magic = OtherMagic /\ kin.keep = 4
    /\ kin.pid # ProxyPid
    /\ kout.res = Err("Magic")

(* C16 as stated: parse returns ID for every datagram whose embedded pid   *)
(* is not the proxy's, whatever its magic, checksum and ICMP type.         *)
C16_IdWhateverElse ==
    (ParsedAsMade /\ kin.pid # ProxyPid) => kout.res = Err("ID")

(* C16 amended: parse returns ID for every datagram that passes the        *)
(* version, type and magic tests and holds a pid other than the proxy's,   *)
(* whatever its checksum and the fields after the pid; a datagram failing  *)
(* an earlier test gets that test's error, whatever its pid.               *)
C16_IdAfterMagic ==
    ParsedAsMade =>
        /\ (EchoReplyHeader(kin) /\ kin.magic = PING_MAGIC /\ kin.pid # ProxyPid
               /\ kin.keep >= 10)
              => kout.res = Err("ID")
        /\ (EchoReplyHeader(kin) /\ kin.magic # PING_MAGIC /\ kin.pid # ProxyPid
               /\ kin.keep >= 10)
              => kout.res = Err("Magic")

\* an IPv4 Echo Reply cut right after a foreign pid, its checksum wrong
C16_Witness ==
    /\ ParsedAsMade
    /\ kin.ver = 4 /\ kin.type = "reply" /\ kin.magic = PING_MAGIC
    /\ kin.pid = ProxyPid + 1 /\ kin.keep = 10 /\ kin.sum = 1
    /\ kout.res = Err("ID")

(* C17: from a datagram parse accepts, flipping one bit between the first  *)
(* byte of the magic and the last byte of the host, the checksum field     *)
(* excepted, makes parse return Checksum.                                  *)
C17_BitFlipIsChecksum ==
    (kpc = "parsed" /\ kout.flip # <<>>) => kout.res = Err("Checksum")

-----------------------------------------------------------------------------
\* proxy_rx went as far as calling send_to: the message went out, the
\* socket refused it, or a well-formed request made the build panic
SendToCalled(h) ==
    h.outcome \in {"sent", "error"} \/ (h.outcome = "panic" /\ WellFormed(h.frame))

\* the calls of send_to among the first n datagrams handled
RECURSIVE CallsIn(_, _)
CallsIn(h, n) ==
    IF n = 0 THEN 0
    ELSE CallsIn(h, n - 1) + (IF SendToCalled(h[n]) THEN 1 ELSE 0)

\* the ICMP sequence field of a message
IcmpSeq(msg) == GetU16(msg, 6)

(* C18: the ICMP sequence counter advances by exactly 1 modulo 2^16 on     *)
(* every call of send_to, whether the socket then sends or not; the k-th   *)
(* request built carries (0x0923 + k - 1) mod 2^16, so 0x0000 follows      *)
(* 0xFFFF; and no other step changes the counter.                          *)
C18_SequenceCounter ==
    /\ [](/\ seq = (InitSeq + kin.sends + CallsIn(handled, Len(handled))) % 65536
          /\ \A k \in DOMAIN handled :
                handled[k].msg # <<>> =>
                    IcmpSeq(handled[k].msg)
                        = (InitSeq + kin.sends + CallsIn(handled, k - 1)) % 65536)
    /\ [][seq' # seq =>
            /\ seq' = (seq + 1) % 65536
            /\ Len(handled') = Len(handled) + 1
            /\ SendToCalled(handled'[Len(handled')])]_vars

\* the request built at 0xFFFF was refused by the socket, the next one
\* carries 0x0000
C18_Witness ==
    /\ Len(handled) = 2
    /\ handled[1].outcome = "error" /\ IcmpSeq(handled[1].msg) = 65535
    /\ handled[2].outcome = "sent" /\ IcmpSeq(handled[2].msg) = 0
    /\ seq = 1

-----------------------------------------------------------------------------
(* C19: in every client state with rx_count > 0, rtt_min <= rtt_max,       *)
(* whatever elapse values (0 .. u32::MAX) the replies received carried.    *)
C19_MinAtMostMax ==
    stats # <<>> /\ stats.rx_count > 0 => ~LessBytes(stats.rtt_max, stats.rtt_min, 1)

(* C20: no frame the proxy sends to a client carries elapse = u32::MAX,    *)
(* whatever datagram the proxy accepted and whatever the clock was when it *)
(* parsed it.                                                              *)
C20_SentinelNeverSent ==
    \A k \in DOMAIN udpOut : Slice(udpOut[k].buf, 4, 4) # U32_MAX

-----------------------------------------------------------------------------
\* the step in which the send of the current probe fails: run leaves the
\* send with the request not sent and the process not interrupted
SendFails ==
    cpc = "send" /\ cpc' # "send" /\ pending' = pending /\ printed' = printed

(* C21: when the send of probe n fails, lost_count goes up by exactly 1,   *)
(* rx_count, timeout_count and tx_count stay, nothing is read off the      *)
(* socket for probe n, and run is back at the head of the loop with the    *)
(* same seq; a reply wait is entered only from a send that succeeded.      *)
C21_SendFailure ==
    /\ [][SendFails =>
            /\ stats'.lost_count = stats.lost_count + 1
            /\ stats'.rx_count = stats.rx_count
            /\ stats'.timeout_count = stats.timeout_count
            /\ stats'.tx_count = stats.tx_count
            /\ inbox' = inbox /\ accepted' = accepted
            /\ cseq' = cseq
            /\ cpc' = "top"]_vars
    /\ [][(cpc # "recv" /\ cpc' = "recv") =>
            (cpc = "send" /\ pending' = pending \cup {cseq})]_vars

\* the send of probe 1 failed, and probe 2 is on its way out
C21_Witness ==
    /\ cpc = "send" /\ cseq = 2
    /\ stats.tx_count = 2 /\ stats.lost_count = 1
    /\ stats.rx_count = 0 /\ stats.timeout_count = 0
    /\ pending = {} /\ inbox = <<>> /\ accepted = <<>>

-----------------------------------------------------------------------------
\* server() has handled one more client request
RequestHandled == Len(handled') = Len(handled) + 1

\* a reader has taken a datagram off its raw socket
DatagramHandled == Len(raw4') < Len(raw4) \/ Len(raw6') < Len(raw6)

(* C22: handling a client request changes nothing of the proxy but the     *)
(* ICMP sequence counter, and handling a datagram off a raw socket,        *)
(* accepted or rejected, changes nothing of it: the counter, the clock and *)
(* the three tasks are as they were, so what the proxy does with the next  *)
(* datagram does not depend on what it handled before.                     *)
C22_OnlyCounterChanges ==
    [][/\ RequestHandled => UNCHANGED <<clock, mainTask, reader4, reader6>>
       /\ DatagramHandled => UNCHANGED <<seq, clock, mainTask, reader4, reader6>>]_vars

-----------------------------------------------------------------------------
\* the client seq the datagram d carries in its private payload
EchoedSeq(d) ==
    Slice(d, (IF d[1] \div 16 = 4 THEN (d[1] % 16) * 4 ELSE 40) + 18, 4)

\* the kernel has queued one more datagram behind those waiting in q
DeliveredBehind(q, r) == Len(r) = Len(q) + 1 /\ SubSeq(r, 1, Len(q)) = q

\* the step is one turn of a reader on the queue q of its socket: it takes
\* the datagram delivered earliest, and the UDP send it issues, if any, is
\* the answer to that datagram; a valid Echo Reply is answered unless
\* reading it ended the reader
ReaderTurnOn(q, r, task) ==
    /\ r = Tail(q)
    /\ \/ udpOut' = udpOut
       \/ /\ Len(udpOut') = Len(udpOut) + 1
          /\ SubSeq(udpOut', 1, Len(udpOut)) = udpOut
          /\ udpOut'[Len(udpOut')].origin = Head(q).origin
          /\ Slice(udpOut'[Len(udpOut')].buf, 0, 4) = EchoedSeq(Head(q).buf)
    /\ ValidEcho(Head(q).buf) => (udpOut' # udpOut \/ task = "panicked")

(* C23: each raw socket is read in delivery order. A reader's turn takes   *)
(* the earliest-delivered datagram still waiting on its socket and issues  *)
(* the UDP send for it before its next turn, deliveries join the end of    *)
(* the queue, and no UDP send is issued outside a reader's turn: of two    *)
(* valid Echo Replies delivered to one reader, the send for the later is   *)
(* never issued before the send for the earlier. The two readers are not   *)
(* ordered against each other.                                             *)
C23_ReaderOrder ==
    [][/\ Len(raw4') < Len(raw4) => (ReaderTurnOn(raw4, raw4', reader4') /\ raw6' = raw6)
       /\ Len(raw6') < Len(raw6) => (ReaderTurnOn(raw6, raw6', reader6') /\ raw4' = raw4)
       /\ Len(raw4') >= Len(raw4) => (raw4' = raw4 \/ DeliveredBehind(raw4, raw4'))
       /\ Len(raw6') >= Len(raw6) => (raw6' = raw6 \/ DeliveredBehind(raw6, raw6'))
       /\ udpOut' # udpOut => (Len(raw4') < Len(raw4) \/ Len(raw6') < Len(raw6))]_vars

\* ClientA asked first and ClientB second, both of the IPv4 target; the
\* echo of ClientB's request was delivered first, and the IPv4 reader has
\* answered ClientB and then ClientA
C23_Witness ==
    /\ Len(handled) = 2 /\ Len(udpOut) = 2
    /\ handled[1].addr = ClientA /\ handled[1].socket = 4
    /\ handled[2].addr = ClientB /\ handled[2].socket = 4
    /\ udpOut[1].origin.client = ClientB /\ GetU32(udpOut[1].buf, 0) = 9
    /\ udpOut[2].origin.client = ClientA /\ GetU32(udpOut[2].buf, 0) = 7
    /\ raw4 = <<>> /\ raw6 = <<>> /\ injected = 0

-----------------------------------------------------------------------------
\* a <= b on u32
LeU32(a, b) == ~LessBytes(b, a, 1)

\* the counters of st are within its tx_count
WithinTx(st) ==
    /\ LeU32(st.rx_count, st.tx_count)
    /\ ~LessBytes(Zero32 \o st.tx_count,
                  WrappingAdd64(Zero32 \o st.lost_count, Zero32 \o st.timeout_count), 1)

(* C24: in every client state rx_count <= tx_count and lost_count +        *)
(* timeout_count <= tx_count, and so it is of the statistics the summary   *)
(* is printed from, at loop exit or on SIGINT, which keeps tx_count -      *)
(* rx_count from going below zero and the loss figure within 0..100.       *)
C24_CountsWithinTx ==
    /\ WithinTx(stats)
    /\ printed # <<>> => WithinTx(printed[1])

=============================================================================
